---- MODULE Spec2Model ----
(***************************************************************************)
(* VibeCurator: the song ingestion pipeline (ingest_spotify.py,            *)
(* discovery_pipeline.py) and the retrieval tools (tools.py) over one      *)
(* Qdrant collection.                                                      *)
(*                                                                         *)
(* Representation.  Python strings in the artist, song and link fields are *)
(* TLA+ strings; lyrics are sequences of character codes (1..3), so that   *)
(* slicing is SubSeq.  Python's None is NoneStr in a string field and      *)
(* NoneText in the lyrics field; neither is the value of any real string.  *)
(* Similarity scores are integers in units of 10^-6.  A uuid4() draw is    *)
(* the pair <<run, position>> of the draw: two draws never coincide.       *)
(***************************************************************************)
EXTENDS Integers, Sequences, FiniteSets, TLC

\* ------------------------------------------------------------------ bounds
MaxRuns == 2          \* ingestion runs started in one behaviour
MaxFaults == 1        \* injected embedder / store faults during ingestion
RawSize == 300        \* records in the external corpus
MaxSongs == 3         \* entries in the songs_json of create_youtube_playlist
MaxLoadLimit == 8     \* largest limit given to load_spotify_dataset on its own
MaxItems == 5         \* longest iterable given to get_batches on its own
MaxSize == 4          \* largest size given to get_batches on its own
MaxMessages == 5      \* chat history length up to which prompts are submitted
MaxDeltas == 2        \* text deltas in one streamed response

\* ------------------------------------------------------- program constants
BatchSize == 100      \* get_batches(ds, size=100)
MinLimit == 1         \* min(max(1, limit), 50)
MaxLimit == 50
LyricsLen == 500      \* x['text'][:500]
PreviewLen == 200     \* (x.get("text") or "")[:200]
ScoreUnit == 100      \* round(point.score, 4), in units of 10^-6

COLLECTION_NAME == "songs"
COSINE == "Cosine"

\* ------------------------------------------------------------ Python values
NoneStr == "<None>"
NoneText == <<0>>

Min(a, b) == IF a < b THEN a ELSE b
Max(a, b) == IF a > b THEN a ELSE b

\* s[:k] for k >= 0
Slice(s, k) == SubSeq(s, 1, Min(k, Len(s)))

\* Python truthiness of a string field and of the lyrics field
TruthyStr(s) == s # NoneStr /\ s # ""
TruthyText(t) == t # NoneText /\ t # <<>>

\* ---------------------------------------------------------------- corpus
LongText == [j \in 1..(LyricsLen + 1) |-> (j % 3) + 1]

\* The i-th record of the external corpus.  Most records are complete; a few
\* lack a field, as records of a scraped corpus do.
RawRecord(i) ==
    [artist |-> IF i % 60 = 20 THEN NoneStr
                ELSE IF i % 3 = 0 THEN "Abba"
                ELSE IF i % 3 = 1 THEN "ABBA" ELSE "Abb",
     song   |-> IF i % 70 = 33 THEN ""
                ELSE IF i % 2 = 0 THEN "Waterloo" ELSE "Fernando",
     text   |-> IF i % 150 = 107 THEN NoneText
                ELSE IF i % 10 = 3 THEN <<>>
                ELSE IF i = 52 THEN LongText
                ELSE <<(i % 3) + 1, (i % 2) + 1, ((i \div 3) % 3) + 1>>,
     link   |-> IF i = 214 THEN NoneStr
                ELSE IF i % 2 = 0 THEN "/w" ELSE "/f"]

RawCorpus == [i \in 1..RawSize |-> RawRecord(i)]

\* is_valid(item) of load_spotify_dataset
is_valid(item) ==
    TruthyStr(item.artist) /\ TruthyStr(item.song) /\ TruthyText(item.text)

\* The loop body breaking one record late: "count > limit".
load_step_late_break(corpus, limit, st) ==
    IF st.done \/ st.i > Len(corpus) THEN [st EXCEPT !.done = TRUE]
    ELSE IF ~is_valid(corpus[st.i]) THEN [st EXCEPT !.i = @ + 1]
    ELSE [i |-> st.i + 1, count |-> st.count + 1,
          out |-> Append(st.out, corpus[st.i]),
          done |-> limit # 0 /\ st.count + 1 > limit]

\* One iteration of "for item in ds" of load_spotify_dataset.  st holds the
\* corpus position i, count, the records yielded so far and whether the
\* loop has ended.  limit = 0 stands for both None and 0 ("if limit and").
load_step(corpus, limit, st) ==
    IF st.done \/ st.i > Len(corpus) THEN [st EXCEPT !.done = TRUE]
    ELSE IF ~is_valid(corpus[st.i]) THEN [st EXCEPT !.i = @ + 1]
    ELSE [i |-> st.i + 1, count |-> st.count + 1,
          out |-> Append(st.out, corpus[st.i]),
          done |-> limit # 0 /\ st.count + 1 >= limit]

\* k iterations from st.
RECURSIVE load_loop(_, _, _, _)
load_loop(corpus, limit, st, k) ==
    IF k = 0 THEN st
    ELSE IF k = 1 THEN load_step(corpus, limit, st)
    ELSE LET half == load_loop(corpus, limit, st, k \div 2)
         IN  IF half.done THEN half      \* break, or the corpus is exhausted
             ELSE load_loop(corpus, limit, half, k - k \div 2)

\* The records the generator yields.
load_spotify_dataset(corpus, limit) ==
    load_loop(corpus, limit, [i |-> 1, count |-> 0, out |-> <<>>, done |-> FALSE],
              Len(corpus)).out

\* The corpus records the generator has read when it ends.
load_reads(corpus, limit) ==
    load_loop(corpus, limit, [i |-> 1, count |-> 0, out |-> <<>>, done |-> FALSE],
              Len(corpus)).i - 1

\* limit=None: "if limit and ..." and "if not limit" take None as they take 0.
NoneLimit == 0

\* song_generator() of ingest_discovered_songs: every discovered song becomes
\* a record, lyrics under the key "text"; nothing is filtered.
song_generator(songs) ==
    [i \in 1..Len(songs) |->
        [artist |-> songs[i].artist, song |-> songs[i].song,
         text |-> songs[i].lyrics, link |-> songs[i].link]]

\* The first n corpus records as the discovery module's Song objects.
DiscoveredSongs(n) ==
    [i \in 1..n |->
        [artist |-> RawCorpus[i].artist, song |-> RawCorpus[i].song,
         lyrics |-> RawCorpus[i].text, link |-> RawCorpus[i].link]]

\* ------------------------------------------------------------- get_batches
\* The loop body without "batch = []" after the yield.
batches_step_no_reset(item, size, st) ==
    LET b == Append(st.batch, item)
    IN  IF Len(b) = size
        THEN [batch |-> b, out |-> Append(st.out, b)]
        ELSE [batch |-> b, out |-> st.out]

\* One iteration of "for item in iterable": batch is the list being filled,
\* out the batches yielded so far.
batches_step(item, size, st) ==
    LET b == Append(st.batch, item)
    IN  IF Len(b) = size
        THEN [batch |-> <<>>, out |-> Append(st.out, b)]
        ELSE [batch |-> b, out |-> st.out]

\* The iterations over items lo..hi, from st.
RECURSIVE batches_loop(_, _, _, _, _)
batches_loop(iterable, size, st, lo, hi) ==
    IF lo > hi THEN st
    ELSE IF lo = hi THEN batches_step(iterable[lo], size, st)
    ELSE LET mid == (lo + hi) \div 2
             half == batches_loop(iterable, size, st, lo, mid)
         IN  IF Len(half.batch) < size     \* always: a full batch is yielded
             THEN batches_loop(iterable, size, half, mid + 1, hi)
             ELSE half

\* get_batches without the final "if batch: yield batch".
get_batches_drop_tail(iterable, size) ==
    batches_loop(iterable, size, [batch |-> <<>>, out |-> <<>>], 1, Len(iterable)).out

\* The batches the generator yields: after the loop, "if batch: yield batch".
get_batches(iterable, size) ==
    LET st == batches_loop(iterable, size, [batch |-> <<>>, out |-> <<>>],
                           1, Len(iterable))
    IN  IF st.batch # <<>> THEN Append(st.out, st.batch) ELSE st.out

\* ---------------------------------------------------------------- embedder
\* SentenceTransformer("all-MiniLM-L6-v2") is a fixed deterministic map from
\* text to unit vectors of one dimension.  Its stand-in maps a text to one of
\* a few integer vectors of Euclidean norm 1000, chosen by the text's
\* character content.
UnitVecs == << <<1000, 0>>, <<960, 280>>, <<936, 352>>, <<352, 936>>, <<-600, 800>> >>

get_sentence_embedding_dimension == Len(UnitVecs[1])

StrCode(s) ==
    CASE s = "Abba" -> 1 [] s = "ABBA" -> 2 [] s = "Abb" -> 3
      [] s = "Waterloo" -> 5 [] s = "Fernando" -> 7
      [] s = "sad breakup songs" -> 0 [] s = "summer party" -> 3
      [] OTHER -> 4        \* "", and str(None) inside the f-string

\* s[lo] + ... + s[hi]
RECURSIVE SumRange(_, _, _)
SumRange(s, lo, hi) ==
    IF lo > hi THEN 0
    ELSE IF lo = hi THEN s[lo]
    ELSE LET mid == (lo + hi) \div 2
         IN  SumRange(s, lo, mid) + SumRange(s, mid + 1, hi)

SumTo(s, n) == SumRange(s, 1, n)

\* f"Artist: {x['artist']} Song: {x['song']} Lyrics: {x['text'][:500]}": the
\* three insertions of the descriptive string.  Slicing None raises
\* TypeError, so it is only built for records whose text is not None.
DescriptiveText(x) ==
    [artist |-> x.artist, song |-> x.song, lyrics |-> Slice(x.text, LyricsLen)]

DescCode(d) == StrCode(d.artist) + StrCode(d.song) + SumTo(d.lyrics, Len(d.lyrics))

\* model.encode(text).tolist(), by the text's code
encode(code) == UnitVecs[(code % Len(UnitVecs)) + 1]

\* ------------------------------------------------------------ vector store
\* The collection "songs" of the Qdrant server: whether it exists, its
\* vector size and distance, and its points in store-native order.
NoCollection == [exists |-> FALSE, size |-> 0, distance |-> "", points |-> <<>>]

Dot(u, v) == SumTo([i \in 1..Len(u) |-> u[i] * v[i]], Len(u))

\* Cosine similarity of two unit vectors, in units of 10^-6.
Score(u, v) == Dot(u, v)

\* client.get_collection: raises when the store does not answer or the
\* collection is absent, else returns the collection's info.
get_collection(coll, fault) ==
    IF fault \/ ~coll.exists
    THEN [raised |-> TRUE, points_count |-> 0]
    ELSE [raised |-> FALSE, points_count |-> Len(coll.points)]

\* client.recreate_collection: an existing collection is dropped and made
\* anew, empty.
recreate_collection(coll, size, distance, fault) ==
    IF fault
    THEN [raised |-> TRUE, coll |-> coll]
    ELSE [raised |-> FALSE,
          coll |-> [exists |-> TRUE, size |-> size, distance |-> distance,
                    points |-> <<>>]]

\* client.create_collection: raises when the store does not answer or the
\* collection already exists (the server refuses with a conflict and leaves
\* it alone), else creates it empty.
create_collection(coll, size, distance, fault) ==
    IF fault \/ coll.exists
    THEN [raised |-> TRUE, coll |-> coll]
    ELSE [raised |-> FALSE,
          coll |-> [exists |-> TRUE, size |-> size, distance |-> distance,
                    points |-> <<>>]]

\* Insert-or-overwrite by id.
Overwrite(stored, new) ==
    LET ids == {new[i].id : i \in 1..Len(new)}
    IN  SelectSeq(stored, LAMBDA p : p.id \notin ids) \o new

\* A store that does not validate the size of the vectors it is given.
upsert_unchecked(coll, new, fault, applied) ==
    IF ~coll.exists
    THEN [raised |-> TRUE, coll |-> coll]
    ELSE IF fault
    THEN [raised |-> TRUE,
          coll |-> [coll EXCEPT !.points = Overwrite(@, SubSeq(new, 1, applied))]]
    ELSE [raised |-> FALSE, coll |-> [coll EXCEPT !.points = Overwrite(@, new)]]

\* client.upsert: raises on an absent collection or a vector of the wrong
\* size, storing nothing.  When the store fails mid-request the first
\* `applied` points may already be stored.
upsert(coll, new, fault, applied) ==
    IF ~coll.exists \/ \E i \in 1..Len(new) : Len(new[i].vector) # coll.size
    THEN [raised |-> TRUE, coll |-> coll]
    ELSE IF fault
    THEN [raised |-> TRUE,
          coll |-> [coll EXCEPT !.points = Overwrite(@, SubSeq(new, 1, applied))]]
    ELSE [raised |-> FALSE, coll |-> [coll EXCEPT !.points = Overwrite(@, new)]]

Take(s, k) == SubSeq(s, 1, Min(k, Len(s)))

\* The indices 1..Len(scores) by descending score; equal scores stay in
\* store-native order.
RECURSIVE RankFrom(_, _)
RankFrom(scores, levels) ==
    IF levels = {} THEN <<>>
    ELSE LET m == CHOOSE x \in levels : \A y \in levels : y <= x
         IN  SelectSeq([i \in 1..Len(scores) |-> i], LAMBDA i : scores[i] = m)
             \o RankFrom(scores, levels \ {m})

Ranked(scores) == RankFrom(scores, {scores[i] : i \in 1..Len(scores)})

\* client.query_points(query=vector, limit=limit): the `limit` nearest
\* points, nearest first, each with its score.
query_points(coll, vector, limit, fault) ==
    IF fault \/ ~coll.exists \/ Len(vector) # coll.size
    THEN [raised |-> TRUE, points |-> <<>>]
    ELSE LET scores == [i \in 1..Len(coll.points) |->
                           Score(vector, coll.points[i].vector)]
             order == Take(Ranked(scores), limit)
         IN  [raised |-> FALSE,
              points |-> [k \in 1..Len(order) |->
                            [id |-> coll.points[order[k]].id,
                             score |-> scores[order[k]],
                             payload |-> coll.points[order[k]].payload]]]

\* A text match instead of a keyword match: the artist is compared with
\* case folded.
Fold(s) == IF s = "ABBA" \/ s = "Abba" THEN "abba" ELSE s
MatchText(payload, key_value) == Fold(payload.artist) = Fold(key_value)

\* Filter(must=[{"key": "artist", "match": {"value": artist_name}}]): the
\* keyword match of a payload field is equality.
MatchValue(payload, key_value) == payload.artist = key_value

\* client.scroll(scroll_filter=..., limit=limit): the first `limit` points
\* whose payload matches.
scroll(coll, artist_name, limit, fault) ==
    IF fault \/ ~coll.exists
    THEN [raised |-> TRUE, points |-> <<>>]
    ELSE [raised |-> FALSE,
          points |-> Take(SelectSeq(coll.points,
                                    LAMBDA p : MatchValue(p.payload, artist_name)),
                          limit)]

\* ------------------------------------------------------------ ingest_songs
\* The payload dict of one record.
Payload(x) ==
    [artist |-> x.artist, song |-> x.song, link |-> x.link,
     text_preview |-> Slice(IF x.text = NoneText THEN <<>> ELSE x.text, PreviewLen)]

\* An id derived from the record's position in the corpus instead of a
\* fresh draw: the same in every run.
uuid_of_position(run, draw) == <<0, draw>>

\* str(uuid.uuid4()): the draw number `draw` of run `run`.
uuid4(run, draw) == <<run, draw>>

\* The zip misaligned: the i-th embedding with the payload of the record at
\* the mirrored position of the batch.
build_points_misaligned(batch, run, drawn) ==
    [i \in 1..Len(batch) |->
        [id |-> uuid4(run, drawn + i),
         vector |-> encode(DescCode(DescriptiveText(batch[i]))),
         payload |-> Payload(batch[Len(batch) + 1 - i])]]

\* points = [PointStruct(id, vector, payload) for embedding, payload in
\* zip(embeddings, payloads)], `drawn` ids having been drawn in this run.
build_points(batch, run, drawn) ==
    [i \in 1..Len(batch) |->
        [id |-> uuid4(run, drawn + i),
         vector |-> encode(DescCode(DescriptiveText(batch[i]))),
         payload |-> Payload(batch[i])]]

\* The loop body with the embedder's exception swallowed: the batch is
\* skipped and the loop goes on.
ingest_batch_swallow(coll, batch, run, drawn, fault, applied) ==
    IF \E i \in 1..Len(batch) : batch[i].text = NoneText
    THEN [raised |-> TRUE, coll |-> coll, embeds |-> 0, upserts |-> 0]
    ELSE IF fault = "embed"
    THEN [raised |-> FALSE, coll |-> coll, embeds |-> 1, upserts |-> 0]
    ELSE LET r == upsert(coll, build_points(batch, run, drawn),
                         fault = "upsert", applied)
         IN  [raised |-> r.raised, coll |-> r.coll, embeds |-> 1, upserts |-> 1]

\* The loop body with the embedding tried again when the embedder raises,
\* the second attempt succeeding.
ingest_batch_retry(coll, batch, run, drawn, fault, applied) ==
    IF \E i \in 1..Len(batch) : batch[i].text = NoneText
    THEN [raised |-> TRUE, coll |-> coll, embeds |-> 0, upserts |-> 0]
    ELSE LET r == upsert(coll, build_points(batch, run, drawn),
                         fault = "upsert", applied)
         IN  [raised |-> r.raised, coll |-> r.coll,
              embeds |-> IF fault = "embed" THEN 2 ELSE 1, upserts |-> 1]

\* One iteration of the loop of ingest_songs.  fault is "none", "embed" (the
\* embedder raises) or "upsert" (the store fails during the upsert, `applied`
\* points having been stored).  embeds and upserts count the calls made.
ingest_batch(coll, batch, run, drawn, fault, applied) ==
    IF \E i \in 1..Len(batch) : batch[i].text = NoneText
    THEN [raised |-> TRUE, coll |-> coll, embeds |-> 0, upserts |-> 0]
    ELSE IF fault = "embed"
    THEN [raised |-> TRUE, coll |-> coll, embeds |-> 1, upserts |-> 0]
    ELSE LET r == upsert(coll, build_points(batch, run, drawn),
                         fault = "upsert", applied)
         IN  [raised |-> r.raised, coll |-> r.coll, embeds |-> 1, upserts |-> 1]

\* The collection bootstrap of ingest_songs: try get_collection, on any
\* exception create_collection.  creates counts the create_collection calls.
ensure_collection(coll, get_fault, create_fault) ==
    IF get_collection(coll, get_fault).raised
    THEN LET r == create_collection(coll, get_sentence_embedding_dimension,
                                    COSINE, create_fault)
         IN  [raised |-> r.raised, coll |-> r.coll, creates |-> 1]
    ELSE [raised |-> FALSE, coll |-> coll, creates |-> 0]

\* ------------------------------------------------------------------- tools
\* The clamp with its lower bound forgotten: min(limit, 50).
clamp_no_min(limit) == Min(limit, MaxLimit)

\* limit = min(max(1, limit), 50)
clamp(limit) == Min(Max(MinLimit, limit), MaxLimit)

\* round(score, 4) of a score in units of 10^-6: to the nearest multiple of
\* ScoreUnit, a tie to the even one.
round4(score) ==
    LET q == score \div ScoreUnit
        r == score % ScoreUnit
    IN  IF 2 * r < ScoreUnit THEN q * ScoreUnit
        ELSE IF 2 * r > ScoreUnit THEN (q + 1) * ScoreUnit
        ELSE IF q % 2 = 0 THEN q * ScoreUnit ELSE (q + 1) * ScoreUnit

\* Song(artist=payload.get("artist", "Unknown"), ...): every payload written
\* by ingest_songs has the four keys, so the defaults are never taken; the
\* pydantic model rejects None in a str field.  score is <<s>>, or <<>> for
\* None.
Song(payload, score) ==
    IF payload.artist = NoneStr \/ payload.song = NoneStr \/ payload.link = NoneStr
    THEN [raised |-> TRUE]
    ELSE [raised |-> FALSE,
          value |-> [artist |-> payload.artist, song |-> payload.song,
                     link |-> payload.link, preview |-> payload.text_preview,
                     score |-> score]]

\* The result list built back to front (songs.insert(0, ...)).
Songs_reversed(points, with_score) ==
    LET n == Len(points)
        made == [k \in 1..n |->
                    Song(points[n + 1 - k].payload,
                         IF with_score THEN <<round4(points[n + 1 - k].score)>>
                         ELSE <<>>)]
    IN  IF \E k \in 1..n : made[k].raised
        THEN [raised |-> TRUE, value |-> <<>>]
        ELSE [raised |-> FALSE, value |-> [k \in 1..n |-> made[k].value]]

Songs(points, with_score) ==
    LET made == [k \in 1..Len(points) |->
                    Song(points[k].payload,
                         IF with_score THEN <<round4(points[k].score)>> ELSE <<>>)]
    IN  IF \E k \in 1..Len(points) : made[k].raised
        THEN [raised |-> TRUE, value |-> <<>>]
        ELSE [raised |-> FALSE, value |-> [k \in 1..Len(points) |-> made[k].value]]

\* The try block of search_songs.  requests lists the requests sent to the
\* store, ranked what the store returned.
search_songs_try(coll, query, limit, embed_fault, store_fault) ==
    IF embed_fault
    THEN [raised |-> TRUE, value |-> <<>>, requests |-> <<>>, ranked |-> <<>>]
    ELSE LET results == query_points(coll, encode(StrCode(query)), limit, store_fault)
             songs == Songs(results.points, TRUE)
             req == << [op |-> "query_points", limit |-> <<limit>>] >>
         IN  IF results.raised
             THEN [raised |-> TRUE, value |-> <<>>, requests |-> req, ranked |-> <<>>]
             ELSE [raised |-> songs.raised, value |-> songs.value, requests |-> req,
                   ranked |-> results.points]

\* search_songs without its except clause: the exception leaves the tool.
search_songs_no_except(coll, query, limit, embed_fault, store_fault) ==
    LET body == search_songs_try(coll, query, clamp(limit), embed_fault, store_fault)
    IN  [raised |-> body.raised, failed |-> body.raised,
         value |-> body.value, requests |-> body.requests, ranked |-> body.ranked]

\* search_songs(query, limit): failed tells whether the try block raised.
search_songs(coll, query, limit, embed_fault, store_fault) ==
    LET body == search_songs_try(coll, query, clamp(limit), embed_fault, store_fault)
    IN  [raised |-> FALSE, failed |-> body.raised,
         value |-> IF body.raised THEN <<>> ELSE body.value,
         requests |-> body.requests, ranked |-> body.ranked]

\* The try block of search_songs_by_artist.
search_songs_by_artist_try(coll, artist_name, limit, store_fault) ==
    LET results == scroll(coll, artist_name, limit, store_fault)
        songs == Songs(results.points, FALSE)
        req == << [op |-> "scroll", limit |-> <<limit>>] >>
    IN  IF results.raised
        THEN [raised |-> TRUE, value |-> <<>>, requests |-> req, ranked |-> <<>>]
        ELSE [raised |-> songs.raised, value |-> songs.value, requests |-> req,
              ranked |-> results.points]

search_songs_by_artist(coll, artist_name, limit, store_fault) ==
    LET body == search_songs_by_artist_try(coll, artist_name, clamp(limit), store_fault)
    IN  [raised |-> FALSE, failed |-> body.raised,
         value |-> IF body.raised THEN <<>> ELSE body.value,
         requests |-> body.requests, ranked |-> body.ranked]

\* get_collection_stats reporting indexed_vectors_count, which is 0 for a
\* collection too small to be indexed, instead of points_count.
get_collection_stats_indexed(coll, store_fault) ==
    LET collection_info == get_collection(coll, store_fault)
        req == << [op |-> "get_collection", limit |-> <<>>] >>
    IN  [raised |-> FALSE, failed |-> collection_info.raised,
         value |-> IF collection_info.raised
                   THEN [error |-> "Failed to get stats", status |-> "unavailable"]
                   ELSE [total_songs |-> 0,
                         collection_name |-> COLLECTION_NAME, status |-> "active"],
         requests |-> req, ranked |-> <<>>]

\* get_collection_stats(): the JSON object it returns.
get_collection_stats(coll, store_fault) ==
    LET collection_info == get_collection(coll, store_fault)
        req == << [op |-> "get_collection", limit |-> <<>>] >>
    IN  [raised |-> FALSE, failed |-> collection_info.raised,
         value |-> IF collection_info.raised
                   THEN [error |-> "Failed to get stats", status |-> "unavailable"]
                   ELSE [total_songs |-> collection_info.points_count,
                         collection_name |-> COLLECTION_NAME, status |-> "active"],
         requests |-> req, ranked |-> <<>>]

\* ------------------------------------------------- create_youtube_playlist
\* A key absent from a song dict; song.get(key, "") then gives "".
MissingKey == "<missing>"

dict_get(value, default) == IF value = MissingKey THEN default ELSE value

\* json.loads(songs_json): raises on text that is not JSON.
json_loads(songs_json) ==
    [raised |-> ~songs_json.valid, value |-> songs_json.songs]

\* f"{artist} {song_name} official audio"
search_query(artist, song_name) == artist \o " " \o song_name \o " official audio"

\* f"{artist} - {song_name}"
track_label(artist, song_name) == artist \o " - " \o song_name

\* youtube.search().list(q=..., maxResults=1).execute(): at most one video of
\* the catalog, identified here by the query that finds it.
search_list(catalog, q, fault) ==
    IF fault THEN [raised |-> TRUE, items |-> <<>>]
    ELSE [raised |-> FALSE,
          items |-> IF q \in catalog THEN << [videoId |-> q] >> ELSE <<>>]

\* The loop body with the else branch lost: a track without a video is
\* recorded nowhere.
playlist_step_no_else(song, st, catalog, fault) ==
    LET artist == dict_get(song.artist, "")
        song_name == dict_get(song.song, "")
    IN  IF st.raised \/ ~TruthyStr(artist) \/ ~TruthyStr(song_name) THEN st
        ELSE LET search_response == search_list(catalog, search_query(artist, song_name),
                                                fault = "search")
             IN  IF search_response.raised THEN [st EXCEPT !.raised = TRUE]
                 ELSE IF search_response.items # <<>>
                 THEN IF fault = "add" THEN [st EXCEPT !.raised = TRUE]
                      ELSE [st EXCEPT
                              !.items = Append(@, search_response.items[1].videoId),
                              !.found_tracks = Append(@, track_label(artist, song_name))]
                 ELSE st

\* One iteration of "for song in songs".  st holds found_tracks, not_found,
\* the videos inserted into the playlist, and whether a call has raised.
playlist_step(song, st, catalog, fault) ==
    LET artist == dict_get(song.artist, "")
        song_name == dict_get(song.song, "")
    IN  IF st.raised \/ ~TruthyStr(artist) \/ ~TruthyStr(song_name) THEN st
        ELSE LET search_response == search_list(catalog, search_query(artist, song_name),
                                                fault = "search")
             IN  IF search_response.raised THEN [st EXCEPT !.raised = TRUE]
                 ELSE IF search_response.items # <<>>
                 THEN IF fault = "add" THEN [st EXCEPT !.raised = TRUE]
                      ELSE [st EXCEPT
                              !.items = Append(@, search_response.items[1].videoId),
                              !.found_tracks = Append(@, track_label(artist, song_name))]
                 ELSE [st EXCEPT
                         !.not_found = Append(@, track_label(artist, song_name))]

\* The iterations over songs[i..], from st.
RECURSIVE playlist_loop(_, _, _, _, _)
playlist_loop(songs, i, st, catalog, fault) ==
    IF i > Len(songs) THEN st
    ELSE playlist_loop(songs, i + 1, playlist_step(songs[i], st, catalog, fault),
                       catalog, fault)

\* The id YouTube gives the new playlist, and the URL made of it.
PlaylistId == "PL1"
playlist_url_of(playlist_id) == "https://www.youtube.com/playlist?list=" \o playlist_id

PlaylistFailure ==
    [success |-> FALSE, error |-> "Failed to create playlist",
     message |-> "Make sure YouTube credentials are set up correctly. Run setup first."]

\* create_youtube_playlist(songs_json, playlist_name): value is the JSON
\* object returned, playlist what exists at YouTube afterwards (created or
\* not, and the videos inserted, in order).  fault is "none", or the call
\* that raises: "auth" (get_youtube_client), "create" (playlists().insert),
\* "search" (search().list) or "add" (playlistItems().insert).
create_youtube_playlist(songs_json, playlist_name, catalog, fault) ==
    LET songs == json_loads(songs_json)
        none == [created |-> FALSE, items |-> <<>>]
    IN  IF songs.raised \/ fault = "auth" \/ fault = "create"
        THEN [raised |-> FALSE, value |-> PlaylistFailure, playlist |-> none]
        ELSE LET st == playlist_loop(songs.value, 1,
                                     [raised |-> FALSE, found_tracks |-> <<>>,
                                      not_found |-> <<>>, items |-> <<>>],
                                     catalog, fault)
                 made == [created |-> TRUE, items |-> st.items]
             IN  IF st.raised
                 THEN [raised |-> FALSE, value |-> PlaylistFailure, playlist |-> made]
                 ELSE [raised |-> FALSE,
                       value |-> [success |-> TRUE,
                                  playlist_url |-> playlist_url_of(PlaylistId),
                                  playlist_name |-> playlist_name,
                                  tracks_added |-> Len(st.found_tracks),
                                  tracks_found |-> st.found_tracks,
                                  tracks_not_found |-> st.not_found,
                                  message |-> <<"Created YouTube playlist with ",
                                                Len(st.found_tracks),
                                                " tracks! View it at: ",
                                                playlist_url_of(PlaylistId)>>],
                       playlist |-> made]

\* ------------------------------------------------------------------- state
VARIABLES
    source,          \* where the records come from: path and its argument
    collection,      \* the collection "songs" in the store
    pc,              \* "idle", "running", "done", "aborted" (ingest_songs
                     \* raised) or "skipped" (no songs, ingest_songs not called)
    runs,            \* ingestion runs started
    batchNo,         \* batches this run has finished
    total_upserted,  \* total_upserted of ingest_songs
    upserts,         \* sizes of the upsert calls of this run, in order
    embeds,          \* model.encode calls of this run
    creates,         \* create_collection calls of this run
    startCount,      \* points in the collection when this run started
    abortedRuns,     \* runs that ended in an exception
    faults,          \* faults injected so far
    call,            \* the tool call in progress and its result
    args,            \* the arguments of a function called on its own
    ret,             \* and what it returned
    messages,        \* st.session_state.messages of the chat app
    full_response,   \* full_response of stream_and_display
    script           \* the chat app's script run: "idle" or "streaming"

vars == <<source, collection, pc, runs, batchNo, total_upserted, upserts,
          embeds, creates, startCount, abortedRuns, faults, call,
          args, ret, messages, full_response, script>>

fun_vars == <<args, ret>>
chat_vars == <<messages, full_response, script>>

ingest_vars == <<pc, runs, batchNo, total_upserted, upserts, embeds, creates,
                 startCount, abortedRuns, faults>>

store_vars == <<source, collection, ingest_vars, call>>

NoCall == [tool |-> "none"]
NoArgs == [fn |-> "none"]
NoRet == [done |-> FALSE]

\* --limit values of the loader path (0: no limit) and numbers of discovered
\* songs of the discovery path.
LoaderLimits == {0, BatchSize, 2 * BatchSize + 50}
DiscoverySizes == {0, 4, BatchSize + 20}

Sources ==
    {[path |-> "loader", arg |-> l] : l \in LoaderLimits}
    \cup {[path |-> "discovery", arg |-> n] : n \in DiscoverySizes}

\* dataset = load_spotify_dataset(limit=args.limit), or song_generator()
Dataset(src) ==
    IF src.path = "loader"
    THEN load_spotify_dataset(RawCorpus, src.arg)
    ELSE song_generator(DiscoveredSongs(src.arg))

\* The datasets of all sources, and the records handed to ingest_songs on
\* every run of this behaviour.
Datasets == [src \in Sources |-> Dataset(src)]
ds == Datasets[source]

\* The store before the first run: no collection, or an empty collection
\* made earlier with this embedder or with one of another dimension.
EmptyCollection(size) ==
    [exists |-> TRUE, size |-> size, distance |-> COSINE, points |-> <<>>]

InitialCollections ==
    {NoCollection,
     EmptyCollection(get_sentence_embedding_dimension),
     EmptyCollection(get_sentence_embedding_dimension + 1)}

\* Inputs of the tool calls.
Queries == {"sad breakup songs", "summer party"}
Artists == {"Abba", "Abb", "Nobody"}
Limits == {-1, 0, 2, MaxLimit + 1}

Init ==
    /\ source \in Sources
    /\ collection \in InitialCollections
    /\ pc = "idle"
    /\ runs = 0
    /\ batchNo = 0
    /\ total_upserted = 0
    /\ upserts = <<>>
    /\ embeds = 0
    /\ creates = 0
    /\ startCount = 0
    /\ abortedRuns = 0
    /\ faults = 0
    /\ call = NoCall
    /\ args = NoArgs
    /\ ret = NoRet
    /\ messages = <<>>
    /\ full_response = ""
    /\ script = "idle"

\* ----------------------------------------------------------------- actions
\* A run starts: __main__ of ingest_spotify.py or ingest_discovered_songs
\* calls ingest_songs, which bootstraps the collection.
\* ingest_discovered_songs returns at once when there are no songs.
IngestStart ==
    /\ pc # "running"
    /\ runs < MaxRuns
    /\ call = NoCall
    /\ runs' = runs + 1
    /\ batchNo' = 0
    /\ total_upserted' = 0
    /\ upserts' = <<>>
    /\ embeds' = 0
    /\ startCount' = Len(collection.points)
    /\ IF source.path = "discovery" /\ ds = <<>>
       THEN /\ pc' = "skipped"
            /\ creates' = 0
            /\ UNCHANGED <<collection, abortedRuns, faults>>
       ELSE \E fault \in {"none", "get", "create"} :
            /\ fault # "none" => faults < MaxFaults
            /\ fault = "create" => ~collection.exists
            /\ LET r == ensure_collection(collection, fault = "get", fault = "create")
               IN  /\ collection' = r.coll
                   /\ creates' = r.creates
                   /\ pc' = IF r.raised THEN "aborted" ELSE "running"
                   /\ abortedRuns' = abortedRuns + (IF r.raised THEN 1 ELSE 0)
            /\ faults' = faults + (IF fault = "none" THEN 0 ELSE 1)
    /\ UNCHANGED <<source, call>>
    /\ UNCHANGED <<fun_vars, chat_vars>>

\* One batch: texts, encode, payloads, points, upsert.
IngestBatch ==
    /\ pc = "running"
    /\ call = NoCall
    /\ LET batches == get_batches(ds, BatchSize)
       IN  /\ batchNo < Len(batches)
           /\ LET batch == batches[batchNo + 1]
              IN  \E fault \in {"none", "embed", "upsert"} :
                  \E applied \in IF fault = "upsert"
                                 THEN {0, Len(batch) \div 2, Len(batch)} ELSE {0} :
                    /\ fault # "none" => faults < MaxFaults
                    /\ faults' = faults + (IF fault = "none" THEN 0 ELSE 1)
                    /\ LET r == ingest_batch(collection, batch, runs, total_upserted,
                                             fault, applied)
                       IN  /\ collection' = r.coll
                           /\ embeds' = embeds + r.embeds
                           /\ upserts' = IF r.upserts = 1
                                         THEN Append(upserts, Len(batch)) ELSE upserts
                           /\ IF r.raised
                              THEN /\ pc' = "aborted"
                                   /\ abortedRuns' = abortedRuns + 1
                                   /\ UNCHANGED <<batchNo, total_upserted>>
                              ELSE /\ batchNo' = batchNo + 1
                                   /\ total_upserted' = total_upserted + Len(batch)
                                   /\ UNCHANGED <<pc, abortedRuns>>
    /\ UNCHANGED <<source, runs, creates, startCount, call>>
    /\ UNCHANGED <<fun_vars, chat_vars>>

\* The loop is exhausted: ingest_songs prints the total and returns.
IngestFinish ==
    /\ pc = "running"
    /\ call = NoCall
    /\ batchNo = Len(get_batches(ds, BatchSize))
    /\ pc' = "done"
    /\ UNCHANGED <<source, collection, runs, batchNo, total_upserted, upserts,
                   embeds, creates, startCount, abortedRuns, faults, call>>
    /\ UNCHANGED <<fun_vars, chat_vars>>

\* The agent calls search_songs(query, limit).
SearchSongs ==
    /\ call = NoCall
    /\ \E fault \in {"none", "embed", "store"} :
       \E query \in Queries, limit \in (IF fault = "none" THEN Limits ELSE {MaxLimit}) :
          call' = [tool |-> "search_songs", arg |-> query, limit |-> limit,
                   fault |-> fault,
                   result |-> search_songs(collection, query, limit,
                                           fault = "embed", fault = "store")]
    /\ UNCHANGED <<source, collection, ingest_vars>>
    /\ UNCHANGED <<fun_vars, chat_vars>>

\* The agent calls search_songs_by_artist(artist_name, limit).
SearchSongsByArtist ==
    /\ call = NoCall
    /\ \E fault \in {"none", "store"} :
       \E artist_name \in Artists, limit \in (IF fault = "none" THEN Limits ELSE {MaxLimit}) :
          call' = [tool |-> "search_songs_by_artist", arg |-> artist_name,
                   limit |-> limit, fault |-> fault,
                   result |-> search_songs_by_artist(collection, artist_name, limit,
                                                     fault = "store")]
    /\ UNCHANGED <<source, collection, ingest_vars>>
    /\ UNCHANGED <<fun_vars, chat_vars>>

\* The agent calls get_collection_stats().
GetCollectionStats ==
    /\ call = NoCall
    /\ \E fault \in {"none", "store"} :
          call' = [tool |-> "get_collection_stats", fault |-> fault,
                   result |-> get_collection_stats(collection, fault = "store")]
    /\ UNCHANGED <<source, collection, ingest_vars>>
    /\ UNCHANGED <<fun_vars, chat_vars>>

\* The tool's return value reaches the agent runtime.
ToolReturn ==
    /\ call # NoCall
    /\ call' = NoCall
    /\ UNCHANGED <<source, collection, ingest_vars>>
    /\ UNCHANGED <<fun_vars, chat_vars>>

Next ==
    \/ IngestStart
    \/ IngestBatch
    \/ IngestFinish
    \/ SearchSongs
    \/ SearchSongsByArtist
    \/ GetCollectionStats
    \/ ToolReturn

Spec == Init /\ [][Next]_vars

\* ------------------------------------------------- functions on their own
\* All sequences over S of length at most n.
SeqsUpTo(S, n) == UNION {[1..k -> S] : k \in 0..n}

\* Entries of a songs_json: complete ones, and ones whose artist or song is
\* empty, null or absent.
PlaylistEntries ==
    {[artist |-> "Abba", song |-> "Waterloo"],
     [artist |-> "Abb", song |-> "Waterloo"],
     [artist |-> "Abba", song |-> ""],
     [artist |-> NoneStr, song |-> "Waterloo"],
     [artist |-> "", song |-> "Fernando"],
     [artist |-> "Abba", song |-> MissingKey]}

\* What the video catalog finds.
Catalogs ==
    SUBSET {search_query("Abba", "Waterloo"), search_query("Abb", "Waterloo")}

PlaylistFaults == {"none", "auth", "create", "search", "add"}

PlaylistArgs ==
    {[fn |-> "create_youtube_playlist",
      songs_json |-> [valid |-> TRUE, songs |-> l],
      playlist_name |-> "My Vibe Playlist", catalog |-> c, fault |-> f] :
        l \in SeqsUpTo(PlaylistEntries, MaxSongs), c \in Catalogs,
        f \in PlaylistFaults}
    \cup {[fn |-> "create_youtube_playlist",
           songs_json |-> [valid |-> FALSE, songs |-> <<>>],
           playlist_name |-> "My Vibe Playlist", catalog |-> {}, fault |-> "none"]}

\* Corpora for load_spotify_dataset: stretches of the external corpus, some
\* beginning with a record that lacks a field.
CorpusEnds == {0, 2, 5, 14, 25}
Corpora == {SubSeq(RawCorpus, a, b) : a \in {1, 3}, b \in CorpusEnds}

LoadArgs ==
    {[fn |-> "load_spotify_dataset", corpus |-> c, given |-> TRUE, limit |-> l] :
        c \in Corpora, l \in 0..MaxLoadLimit}
    \cup {[fn |-> "load_spotify_dataset", corpus |-> c, given |-> FALSE,
           limit |-> NoneLimit] : c \in Corpora}

\* Iterables and sizes for get_batches.
BatchArgs ==
    {[fn |-> "get_batches", iterable |-> it, size |-> size] :
        it \in SeqsUpTo({"a", "b"}, MaxItems), size \in 1..MaxSize}

FunArgs == PlaylistArgs \cup LoadArgs \cup BatchArgs

\* One function is called once, on arguments of FunArgs; the store and the
\* chat app stay as they start.
InitFun ==
    /\ source = [path |-> "discovery", arg |-> 0]
    /\ collection = NoCollection
    /\ pc = "idle"
    /\ runs = 0
    /\ batchNo = 0
    /\ total_upserted = 0
    /\ upserts = <<>>
    /\ embeds = 0
    /\ creates = 0
    /\ startCount = 0
    /\ abortedRuns = 0
    /\ faults = 0
    /\ call = NoCall
    /\ args \in FunArgs
    /\ ret = NoRet
    /\ messages = <<>>
    /\ full_response = ""
    /\ script = "idle"

\* The agent calls create_youtube_playlist(songs_json, playlist_name).
CallCreateYoutubePlaylist ==
    /\ args.fn = "create_youtube_playlist"
    /\ ~ret.done
    /\ ret' = [done |-> TRUE,
               value |-> create_youtube_playlist(args.songs_json, args.playlist_name,
                                                 args.catalog, args.fault)]
    /\ UNCHANGED <<args, store_vars, chat_vars>>

\* list(load_spotify_dataset(limit)) over the corpus of args.
CallLoadSpotifyDataset ==
    /\ args.fn = "load_spotify_dataset"
    /\ ~ret.done
    /\ ret' = [done |-> TRUE,
               value |-> load_spotify_dataset(args.corpus, args.limit),
               reads |-> load_reads(args.corpus, args.limit)]
    /\ UNCHANGED <<args, store_vars, chat_vars>>

\* list(get_batches(iterable, size))
CallGetBatches ==
    /\ args.fn = "get_batches"
    /\ ~ret.done
    /\ ret' = [done |-> TRUE, value |-> get_batches(args.iterable, args.size)]
    /\ UNCHANGED <<args, store_vars, chat_vars>>

NextFun ==
    \/ CallCreateYoutubePlaylist
    \/ CallLoadSpotifyDataset
    \/ CallGetBatches

SpecFun == InitFun /\ [][NextFun]_vars

\* ---------------------------------------------------------------- chat app
\* app.py is a Streamlit script: it runs from top to bottom on every user
\* interaction, st.session_state.messages living across the runs.  A run that
\* received a prompt appends the user message and then streams the agent's
\* response, calling message_placeholder.markdown on every event.  When the
\* user interacts while a run is under way, Streamlit stops that run at its
\* next st call with a script-control exception, which is not an Exception
\* and so passes the handler's "except Exception", and starts the next run.
Prompts == {"sad songs", "party"}
Deltas == {"a"}
StreamErrors == {"timeout"}

InitChat ==
    /\ source = [path |-> "discovery", arg |-> 0]
    /\ collection = NoCollection
    /\ pc = "idle"
    /\ runs = 0
    /\ batchNo = 0
    /\ total_upserted = 0
    /\ upserts = <<>>
    /\ embeds = 0
    /\ creates = 0
    /\ startCount = 0
    /\ abortedRuns = 0
    /\ faults = 0
    /\ call = NoCall
    /\ args = NoArgs
    /\ ret = NoRet
    /\ messages = <<>>
    /\ full_response = ""
    /\ script = "idle"

\* A prompt is submitted while no run is under way: the user message is
\* appended and stream_and_display begins.
SubmitPrompt ==
    /\ script = "idle"
    /\ Len(messages) < MaxMessages
    /\ \E prompt \in Prompts :
          messages' = Append(messages, [role |-> "user", content |-> prompt])
    /\ full_response' = ""
    /\ script' = "streaming"
    /\ UNCHANGED <<store_vars, fun_vars>>

\* A text event of the stream: full_response += event["content"].
StreamText ==
    /\ script = "streaming"
    /\ Len(full_response) < MaxDeltas
    /\ \E delta \in Deltas : full_response' = full_response \o delta
    /\ UNCHANGED <<messages, script, store_vars, fun_vars>>

\* The stream ends: the response is appended as the assistant message.
StreamComplete ==
    /\ script = "streaming"
    /\ messages' = Append(messages, [role |-> "assistant", content |-> full_response])
    /\ script' = "idle"
    /\ UNCHANGED <<full_response, store_vars, fun_vars>>

\* The stream raises: the error is appended as the assistant message.
StreamRaise ==
    /\ script = "streaming"
    /\ \E err \in StreamErrors :
          messages' = Append(messages, [role |-> "assistant",
                                        content |-> "Error: " \o err])
    /\ script' = "idle"
    /\ UNCHANGED <<full_response, store_vars, fun_vars>>

\* A prompt is submitted while the response to the last one is streaming:
\* that run is stopped before its assistant message is appended, and the
\* next run appends the new user message and streams.
SubmitPromptWhileStreaming ==
    /\ script = "streaming"
    /\ Len(messages) < MaxMessages
    /\ \E prompt \in Prompts :
          messages' = Append(messages, [role |-> "user", content |-> prompt])
    /\ full_response' = ""
    /\ script' = "streaming"
    /\ UNCHANGED <<store_vars, fun_vars>>

\* Clear Chat History is pressed, a run under way or not: the next run sets
\* messages to [] and st.rerun() starts over.
ClearChatHistory ==
    /\ messages' = <<>>
    /\ full_response' = ""
    /\ script' = "idle"
    /\ UNCHANGED <<store_vars, fun_vars>>

NextChat ==
    \/ SubmitPrompt
    \/ StreamText
    \/ StreamComplete
    \/ StreamRaise
    \/ SubmitPromptWhileStreaming
    \/ ClearChatHistory

SpecChat == InitChat /\ [][NextChat]_vars

\* ------------------------------------------------------------------ claims
CeilDiv(n, d) == (n + d - 1) \div d

IsSearch == call.tool = "search_songs"
IsByArtist == call.tool = "search_songs_by_artist"
IsStats == call.tool = "get_collection_stats"

\* C1: a run of ingest_songs over n records that ends without a failure has
\* made exactly ceil(n/100) upsert calls, all of 100 points but the last,
\* which carries the remaining 1..100 points; no call is empty, and the
\* collection holds exactly n points more than when the run started.
C1_BatchedUpserts ==
    pc = "done" =>
        LET n == Len(ds)
            k == CeilDiv(n, BatchSize)
        IN  /\ Len(upserts) = k
            /\ \A i \in 1..(k - 1) : upserts[i] = BatchSize
            /\ k > 0 => /\ upserts[k] = n - BatchSize * (k - 1)
                        /\ upserts[k] \in 1..BatchSize
            /\ \A i \in 1..Len(upserts) : upserts[i] # 0
            /\ total_upserted = n
            /\ Len(collection.points) = startCount + n

\* 250 valid records: upserts of 100, 100 and 50 points, 250 points more.
C1_Witness ==
    /\ pc = "done"
    /\ source.path = "loader"
    /\ Len(ds) = 250
    /\ \A i \in 1..Len(ds) : is_valid(ds[i])
    /\ upserts = <<100, 100, 50>>
    /\ Len(collection.points) = startCount + 250

\* The results of a search tool are in order of non-increasing score.
NonIncreasing(v) == \A i \in 1..(Len(v) - 1) : v[i].score[1] >= v[i + 1].score[1]

\* The song summary of one point the store returned.
SummaryOf(point, score) ==
    [artist |-> point.payload.artist, song |-> point.payload.song,
     link |-> point.payload.link, preview |-> point.payload.text_preview,
     score |-> score]

\* C2 as stated: for every integer k, search_songs(query, limit=k) returns at
\* most k results (none when k is negative), in order of non-increasing
\* score.
C2_AtMostK ==
    IsSearch =>
        /\ Len(call.result.value) <= Max(call.limit, 0)
        /\ NonIncreasing(call.result.value)

\* C2, amended: search_songs(query, limit=k) returns at most
\* min(max(1, k), 50) results, hence at most k whenever k >= 1, in order of
\* non-increasing score; when nothing fails the list is the store's ranked
\* result, point for point in the same order, each score rounded to 4 digits.
C2_AtMostClampedK ==
    IsSearch =>
        LET v == call.result.value
            ranked == call.result.ranked
        IN  /\ Len(v) <= Min(Max(MinLimit, call.limit), MaxLimit)
            /\ call.limit >= 1 => Len(v) <= call.limit
            /\ NonIncreasing(v)
            /\ \A i \in 1..(Len(ranked) - 1) : ranked[i].score >= ranked[i + 1].score
            /\ ~call.result.failed =>
                  /\ Len(v) = Len(ranked)
                  /\ \A i \in 1..Len(v) :
                        v[i] = SummaryOf(ranked[i], <<round4(ranked[i].score)>>)

\* limit=51 on a collection of more than 50 points: 50 results, of more than
\* one score, one of them changed by the rounding.
C2_Witness ==
    /\ IsSearch
    /\ call.limit = MaxLimit + 1
    /\ Len(collection.points) > MaxLimit
    /\ Len(call.result.value) = MaxLimit
    /\ call.result.value[1].score[1] > call.result.value[MaxLimit].score[1]
    /\ \E i \in 1..MaxLimit :
          call.result.value[i].score[1] # call.result.ranked[i].score

\* C3 as stated: each of the three tools hands the store the caller's limit
\* clamped into 1..50, and returns at most 50 results.
C3_AllThreeClamp ==
    call.tool # "none" =>
        /\ \A i \in 1..Len(call.result.requests) :
              /\ call.result.requests[i].limit # <<>>
              /\ call.result.requests[i].limit[1] \in MinLimit..MaxLimit
        /\ (IsSearch \/ IsByArtist) =>
              /\ \A i \in 1..Len(call.result.requests) :
                    call.result.requests[i].limit
                        = <<Min(Max(MinLimit, call.limit), MaxLimit)>>
              /\ Len(call.result.value) <= MaxLimit

\* C3, amended: search_songs and search_songs_by_artist hand the store the
\* caller's limit clamped into 1..50, min(max(1, limit), 50), and return at
\* most 50 results; get_collection_stats takes no limit and its request to
\* the store carries none.
C3_SearchToolsClamp ==
    /\ (IsSearch \/ IsByArtist) =>
          /\ \A i \in 1..Len(call.result.requests) :
                call.result.requests[i].limit
                    = <<Min(Max(MinLimit, call.limit), MaxLimit)>>
          /\ Len(call.result.value) <= MaxLimit
    /\ IsStats =>
          \A i \in 1..Len(call.result.requests) :
              call.result.requests[i].limit = <<>>

\* search_songs_by_artist with limit=51 over more than 50 songs of the
\* artist: the store is asked for 50 and 50 are returned.
C3_Witness ==
    /\ IsByArtist
    /\ call.limit = MaxLimit + 1
    /\ call.result.requests = << [op |-> "scroll", limit |-> <<MaxLimit>>] >>
    /\ Len(call.result.value) = MaxLimit

\* C4: no tool call raises: it returns a value, and when the embedder or the
\* store fails, or the collection is absent, or anything else raises inside
\* the tool, that value is the empty list (the two searches) or a payload
\* with an error and status "unavailable" (get_collection_stats).
C4_ToolsNeverRaise ==
    call.tool # "none" =>
        /\ ~call.result.raised
        /\ (call.fault # "none" \/ ~collection.exists \/ call.result.failed) =>
              /\ (IsSearch \/ IsByArtist) => call.result.value = <<>>
              /\ IsStats => call.result.value
                              = [error |-> "Failed to get stats",
                                 status |-> "unavailable"]

\* The store fails under search_songs while the collection holds points.
C4_Witness ==
    /\ IsSearch
    /\ call.fault = "store"
    /\ collection.exists
    /\ collection.points # <<>>
    /\ ~call.result.raised
    /\ call.result.value = <<>>

\* C5: every song search_songs_by_artist(X) returns is the summary of a
\* stored point whose payload artist is exactly X, and its artist is X.
C5_ExactArtist ==
    IsByArtist =>
        \A i \in 1..Len(call.result.value) :
            /\ call.result.value[i].artist = call.arg
            /\ \E j \in 1..Len(collection.points) :
                  /\ collection.points[j].payload.artist = call.arg
                  /\ call.result.value[i] = SummaryOf(collection.points[j], <<>>)

\* Songs of "Abba" are returned from a collection that also holds songs of
\* "ABBA" and of "Abb".
C5_Witness ==
    /\ IsByArtist
    /\ call.arg = "Abba"
    /\ call.result.value # <<>>
    /\ \E j \in 1..Len(collection.points) :
          collection.points[j].payload.artist = "ABBA"
    /\ \E j \in 1..Len(collection.points) :
          collection.points[j].payload.artist = "Abb"

\* C6: on every ingestion path, no point is stored for a record whose text
\* is missing or empty, and no search result shows such a record.
C6_NoPointWithoutText ==
    /\ \A j \in 1..Len(collection.points) :
          TruthyText(ds[collection.points[j].id[2]].text)
    /\ (IsSearch \/ IsByArtist) =>
          \A i \in 1..Len(call.result.value) : call.result.value[i].preview # <<>>

\* C7: the bootstrap of ingest_songs creates the collection, once, with the
\* embedder's dimension and the cosine metric, when it is absent; when it is
\* present create_collection is not called and the collection is unchanged;
\* a second bootstrap changes nothing.
C7_BootstrapStep ==
    runs' = runs + 1 =>
        /\ collection.exists => (creates' = 0 /\ collection' = collection)
        /\ (~collection.exists /\ pc' = "running") =>
              /\ creates' = 1
              /\ collection' = EmptyCollection(get_sentence_embedding_dimension)
        /\ pc' = "running" =>
              ensure_collection(collection', FALSE, FALSE)
                  = [raised |-> FALSE, coll |-> collection', creates |-> 0]

C7_BootstrapIdempotent == [][C7_BootstrapStep]_vars

\* C8: when the collection exists and the store answers,
\* get_collection_stats reports status "active" and total_songs equal to the
\* collection's point count: 0 for a new collection, and r * n after r runs
\* over n records, none of which failed.
C8_StatsCount ==
    (IsStats /\ call.fault = "none" /\ collection.exists) =>
        /\ call.result.value
              = [total_songs |-> Len(collection.points),
                 collection_name |-> COLLECTION_NAME, status |-> "active"]
        /\ (runs = 0 \/ (pc = "running" /\ runs = 1 /\ batchNo = 0)) =>
              call.result.value.total_songs = 0
        /\ (pc = "done" /\ abortedRuns = 0) =>
              call.result.value.total_songs = runs * Len(ds)

\* Two complete runs over 250 records: 500 songs reported.
C8_Witness ==
    /\ IsStats
    /\ pc = "done"
    /\ runs = 2
    /\ abortedRuns = 0
    /\ call.result.value.status = "active"
    /\ call.result.value.total_songs = 500

\* C9: a run in which a batch failed to embed or upsert has raised out of
\* ingest_songs: the batches before the failed one were embedded and
\* upserted, the failed one at most once, none after it, and the points of
\* the earlier batches are stored.
C9_AbortedState ==
    pc = "aborted" =>
        /\ total_upserted = BatchSize * batchNo
        /\ embeds \in {batchNo, batchNo + 1}
        /\ Len(upserts) \in {batchNo, batchNo + 1}
        /\ Len(upserts) <= embeds
        /\ Len(collection.points) >= startCount + total_upserted
        /\ \A j \in 1..total_upserted :
              /\ collection.points[startCount + j].id = <<runs, j>>
              /\ collection.points[startCount + j].payload = Payload(ds[j])

\* A fault during a run ends the run; nothing is rolled back; an aborted run
\* does nothing more; the next run keeps nothing of the last and starts from
\* the first record.
C9_Step ==
    /\ (pc = "running" /\ faults' > faults) => pc' = "aborted"
    /\ (pc = "running" /\ pc' = "aborted") =>
          /\ Len(collection'.points) >= Len(collection.points)
          /\ SubSeq(collection'.points, 1, Len(collection.points)) = collection.points
    /\ (pc = "aborted" /\ runs' = runs) =>
          UNCHANGED <<collection, pc, batchNo, embeds, upserts, total_upserted>>
    /\ runs' = runs + 1 =>
          /\ batchNo' = 0
          /\ total_upserted' = 0
          /\ embeds' = 0
          /\ upserts' = <<>>
          /\ startCount' = Len(collection.points)

C9_AbortOnFailure == []C9_AbortedState /\ [][C9_Step]_vars

\* The second batch failed: the 100 points of the first are stored.
C9_Witness ==
    /\ pc = "aborted"
    /\ batchNo = 1
    /\ embeds = 2
    /\ faults = 1
    /\ Len(collection.points) = startCount + BatchSize

\* C10: the ids of the stored points are pairwise different, so a run never
\* overwrites a point: a run that completes adds one point per record, in
\* record order, whatever the collection held before (the p points an
\* aborted run left), and r complete runs over the same n records leave
\* r * n points, every record stored r times.
C10_NeverOverwrites ==
    /\ Cardinality({collection.points[j].id : j \in 1..Len(collection.points)})
          = Len(collection.points)
    /\ pc = "done" =>
          /\ Len(collection.points) = startCount + Len(ds)
          /\ \A i \in 1..Len(ds) :
                collection.points[startCount + i].payload = Payload(ds[i])
    /\ (pc = "done" /\ abortedRuns = 0) =>
          /\ Len(collection.points) = runs * Len(ds)
          /\ \A r \in 1..runs : \A i \in 1..Len(ds) :
                /\ collection.points[(r - 1) * Len(ds) + i].id = <<r, i>>
                /\ collection.points[(r - 1) * Len(ds) + i].payload = Payload(ds[i])

\* A run aborted having stored p > 0 points; the next run completed and the
\* collection holds p + n points.
C10_Witness ==
    /\ pc = "done"
    /\ runs = 2
    /\ abortedRuns = 1
    /\ startCount > 0
    /\ Len(ds) > 0
    /\ Len(collection.points) = startCount + Len(ds)

\* The collection exists with another vector size than the embedder's.
Mismatched ==
    collection.exists /\ collection.size # get_sentence_embedding_dimension

IsPlaylist == args.fn = "create_youtube_playlist" /\ ret.done

\* C12: when create_youtube_playlist succeeds the result carries the
\* playlist's URL; tracks_found lists, in input order, the entries with
\* non-empty artist and song for which the catalog has a video, and exactly
\* their videos are in the playlist, in that order; tracks_not_found lists,
\* in input order, the other entries with non-empty artist and song; every
\* such entry is in one of the two lists, once per occurrence; an entry
\* lacking artist or song is in neither; tracks_added is the length of
\* tracks_found.
C12_PlaylistPartition ==
    (IsPlaylist /\ ret.value.value.success) =>
        LET songs == args.songs_json.songs
            v == ret.value.value
            lacking == {"", NoneStr, MissingKey}
            usable == SelectSeq(songs, LAMBDA e : e.artist \notin lacking
                                                   /\ e.song \notin lacking)
            found == SelectSeq(usable, LAMBDA e :
                                  (e.artist \o " " \o e.song \o " official audio")
                                      \in args.catalog)
            missing == SelectSeq(usable, LAMBDA e :
                                  (e.artist \o " " \o e.song \o " official audio")
                                      \notin args.catalog)
        IN  /\ v.playlist_url = "https://www.youtube.com/playlist?list=" \o PlaylistId
            /\ v.tracks_found
                  = [i \in 1..Len(found) |-> found[i].artist \o " - " \o found[i].song]
            /\ v.tracks_not_found
                  = [i \in 1..Len(missing) |->
                        missing[i].artist \o " - " \o missing[i].song]
            /\ Len(v.tracks_found) + Len(v.tracks_not_found) = Len(usable)
            /\ v.tracks_added = Len(v.tracks_found)
            /\ ret.value.playlist.created
            /\ ret.value.playlist.items
                  = [i \in 1..Len(found) |->
                        found[i].artist \o " " \o found[i].song \o " official audio"]

\* Three entries: one found, one lacking its song, one not found.
C12_Witness ==
    /\ IsPlaylist
    /\ ret.value.value.success
    /\ args.songs_json.songs
          = << [artist |-> "Abba", song |-> "Waterloo"],
               [artist |-> "Abba", song |-> MissingKey],
               [artist |-> "Abb", song |-> "Waterloo"] >>
    /\ ret.value.value.tracks_found = << "Abba - Waterloo" >>
    /\ ret.value.value.tracks_not_found = << "Abb - Waterloo" >>
    /\ ret.value.value.tracks_added = 1

\* C13: a step of ingest_songs that stores points appends them in record
\* order, the j-th of them built from the j-th record not yet upserted: its
\* vector is the embedding of that record's artist, song and first 500
\* characters of lyrics, and its payload is the same record's artist, song
\* and link unchanged with the first 200 characters of its lyrics as
\* text_preview; a batch that succeeds stores one point per record.
C13_Step ==
    LET old == Len(collection.points)
        new == Len(collection'.points)
    IN  /\ \A k \in (old + 1)..new :
              LET p == collection'.points[k]
                  x == ds[total_upserted + (k - old)]
                  lyrics == SubSeq(x.text, 1, Min(500, Len(x.text)))
              IN  /\ p.id = <<runs, total_upserted + (k - old)>>
                  /\ p.vector = encode(StrCode(x.artist) + StrCode(x.song)
                                       + SumTo(lyrics, Len(lyrics)))
                  /\ p.payload
                        = [artist |-> x.artist, song |-> x.song, link |-> x.link,
                           text_preview |-> SubSeq(x.text, 1, Min(200, Len(x.text)))]
        /\ batchNo' = batchNo + 1 =>
              /\ new - old = Min(BatchSize, Len(ds) - total_upserted)
              /\ total_upserted' = total_upserted + (new - old)

C13_PointPairsRecord == [][C13_Step]_vars

\* A completed run stored a record whose lyrics are longer than 500
\* characters: the preview has 200 characters and the vector is not the
\* embedding of the whole lyrics.
C13_Witness ==
    /\ pc = "done"
    /\ \E k \in 1..Len(collection.points) :
          LET p == collection.points[k]
              x == ds[p.id[2]]
          IN  /\ Len(x.text) > LyricsLen
              /\ Len(p.payload.text_preview) = PreviewLen
              /\ p.vector # encode(StrCode(x.artist) + StrCode(x.song)
                                   + SumTo(x.text, Len(x.text)))

IsLoad == args.fn = "load_spotify_dataset" /\ ret.done

\* The records of a corpus that have non-empty artist, song and text.
ValidOf(corpus) ==
    SelectSeq(corpus, LAMBDA x : /\ x.artist \notin {NoneStr, ""}
                                 /\ x.song \notin {NoneStr, ""}
                                 /\ x.text \notin {NoneText, <<>>})

\* The number of records read up to and including the n-th valid one.
ReadsFor(corpus, n) ==
    CHOOSE r \in 0..Len(corpus) :
        /\ Len(ValidOf(SubSeq(corpus, 1, r))) = n
        /\ \A q \in 0..(r - 1) : Len(ValidOf(SubSeq(corpus, 1, q))) < n

\* C14 as stated: load_spotify_dataset yields, for every limit L >= 0 given,
\* the first L valid records, in corpus order, at most L of them, and reads
\* nothing after the L-th; without a limit it yields every valid record.
C14_LoaderLimit ==
    IsLoad =>
        LET valid == ValidOf(args.corpus)
        IN  IF args.given
            THEN /\ Len(ret.value) <= args.limit
                 /\ ret.value = SubSeq(valid, 1, Min(args.limit, Len(valid)))
                 /\ Len(valid) >= args.limit
                       => ret.reads = ReadsFor(args.corpus, args.limit)
            ELSE ret.value = valid

\* C14, amended: load_spotify_dataset yields, for every limit L >= 1 given,
\* the first L valid records, in corpus order, at most L of them, and reads
\* nothing after the L-th; with limit 0 as without a limit it yields every
\* valid record and reads the whole corpus.
C14_LoaderPositiveLimit ==
    IsLoad =>
        LET valid == ValidOf(args.corpus)
        IN  IF args.given /\ args.limit >= 1
            THEN /\ Len(ret.value) <= args.limit
                 /\ ret.value = SubSeq(valid, 1, Min(args.limit, Len(valid)))
                 /\ ret.reads = IF Len(valid) >= args.limit
                                THEN ReadsFor(args.corpus, args.limit)
                                ELSE Len(args.corpus)
            ELSE /\ ret.value = valid
                 /\ ret.reads = Len(args.corpus)

\* Limit 3 over 14 records, the third of which lacks its text: records 1, 2
\* and 4 are yielded and four records are read.
C14_Witness ==
    /\ IsLoad
    /\ args.given
    /\ args.limit = 3
    /\ args.corpus = SubSeq(RawCorpus, 1, 14)
    /\ ret.value = << RawCorpus[1], RawCorpus[2], RawCorpus[4] >>
    /\ ret.reads = 4

IsBatches == args.fn = "get_batches" /\ ret.done

\* The batches b[k..] concatenated in order.
RECURSIVE ConcatFrom(_, _)
ConcatFrom(b, k) == IF k > Len(b) THEN <<>> ELSE b[k] \o ConcatFrom(b, k + 1)

\* C17: for every finite iterable and every size >= 1 the batches of
\* get_batches(iterable, size), concatenated in order, are the iterable; no
\* batch is empty, none has more than size items, all but the last have
\* exactly size, and an empty iterable gives no batch.
C17_BatchesLossless ==
    IsBatches =>
        LET b == ret.value
        IN  /\ ConcatFrom(b, 1) = args.iterable
            /\ \A k \in 1..Len(b) : Len(b[k]) \in 1..args.size
            /\ \A k \in 1..(Len(b) - 1) : Len(b[k]) = args.size
            /\ args.iterable = <<>> => b = <<>>
            /\ Len(b) = CeilDiv(Len(args.iterable), args.size)

\* Five items in batches of two: two full batches and a last one of one.
C17_Witness ==
    /\ IsBatches
    /\ args.iterable = <<"a", "b", "b", "a", "b">>
    /\ args.size = 2
    /\ ret.value = << <<"a", "b">>, <<"b", "a">>, <<"b">> >>

\* C15: within a run every batch is embedded at most once and upserted at
\* most once, the failed one included, and create_collection is called at
\* most once; a tool call sends the store at most one request, none when the
\* embedder failed first.
C15_CallsAtMostOnce ==
    /\ pc = "running" => (embeds = batchNo /\ Len(upserts) = batchNo)
    /\ pc = "done" =>
          /\ embeds = CeilDiv(Len(ds), BatchSize)
          /\ Len(upserts) = CeilDiv(Len(ds), BatchSize)
    /\ pc = "aborted" =>
          /\ embeds \in {batchNo, batchNo + 1}
          /\ Len(upserts) \in {batchNo, batchNo + 1}
    /\ creates <= 1
    /\ call.tool # "none" =>
          /\ Len(call.result.requests) <= 1
          /\ call.fault = "store" =>
                (Len(call.result.requests) = 1 /\ call.result.failed)
          /\ call.fault = "embed" => call.result.requests = <<>>

\* Within a run, a step makes at most one embedding and one upsert, and the
\* batch it worked on is then either finished or the end of the run; only a
\* new run, started by the caller, works on a batch again.
C15_Step ==
    runs' = runs =>
        /\ embeds' \in {embeds, embeds + 1}
        /\ Len(upserts') \in {Len(upserts), Len(upserts) + 1}
        /\ (embeds' = embeds + 1 \/ Len(upserts') = Len(upserts) + 1) =>
              /\ pc = "running"
              /\ (batchNo' = batchNo + 1 /\ pc' = "running")
                    \/ (batchNo' = batchNo /\ pc' = "aborted")
        /\ pc # "running" => UNCHANGED <<batchNo, embeds, upserts, collection>>

C15_NothingRetried == []C15_CallsAtMostOnce /\ [][C15_Step]_vars

\* The upsert of the second batch failed and the run ended with that batch
\* embedded and upserted once; a search then met a store failure, having
\* sent its one request.
C15_Witness ==
    /\ pc = "aborted"
    /\ batchNo = 1
    /\ embeds = 2
    /\ Len(upserts) = 2
    /\ IsSearch
    /\ call.fault = "store"
    /\ Len(call.result.requests) = 1
    /\ call.result.value = <<>>

\* C16: no step of the program removes or changes a stored point: the
\* points stored before a step are, after it, still stored in the same
\* places with the same id, vector and payload, so the point count never
\* decreases; an existing collection keeps its dimension and metric; and a
\* step of a tool call leaves the collection unchanged.
C16_Step ==
    /\ Len(collection'.points) >= Len(collection.points)
    /\ \A j \in 1..Len(collection.points) :
          collection'.points[j] = collection.points[j]
    /\ collection.exists =>
          /\ collection'.exists
          /\ collection'.size = collection.size
          /\ collection'.distance = collection.distance
    /\ call' # call => collection' = collection

C16_AppendOnly == [][C16_Step]_vars

\* After an aborted run that stored points and a second run that stored
\* more, get_collection_stats is called.
C16_Witness ==
    /\ runs = 2
    /\ abortedRuns >= 1
    /\ startCount > 0
    /\ Len(collection.points) > startCount
    /\ IsStats
    /\ call.fault = "none"
    /\ call.result.value.total_songs = Len(collection.points)

\* C18: whenever no response is being streamed, the chat history has even
\* length and alternates user, assistant, user, assistant from a user
\* message on; while one is streamed, it is such a history followed by the
\* one user message being answered.
C18_HistoryAlternates ==
    /\ \A i \in 1..Len(messages) :
          messages[i].role = (IF i % 2 = 1 THEN "user" ELSE "assistant")
    /\ script = "idle" => Len(messages) % 2 = 0
    /\ script = "streaming" => Len(messages) % 2 = 1

====
